---------------------------- MODULE Spec2Model ----------------------------
(***************************************************************************)
(* A state-machine model of the AI tool collection: the App shell that     *)
(* mounts one tool at a time, and the six tools (ID photo, outfit changer, *)
(* beauty camera, poster generator, social media converter, doodle         *)
(* enhancer).  One action is one React event handler, or the continuation  *)
(* of one after an await (a FileReader finishing, a service call           *)
(* settling).  React flushes the state updates of a handler before the     *)
(* next event is delivered, so each is one atomic step.                     *)
(***************************************************************************)
EXTENDS Integers, Sequences, FiniteSets, Bags, TLC

VARIABLES
    selectedTool,     \* App: the mounted tool, or "none" (null)
    images,           \* slot -> File | null   (originalImage, backgroundImage, broochImage, logoImage)
    base64s,          \* slot -> payload | null (originalImageBase64, ...)
    generatedImages,  \* the stored result: generatedImageBase64 (empty or one payload), or the poster list
    isLoading,
    loadingMessage,   \* PosterGenerator only
    error,            \* null or a message
    params,           \* the mounted tool's parameters
    reads,            \* bag of fileToBase64 calls whose FileReader has not finished
    gens,             \* handleGenerateClick invocations suspended at an await
    rejected,         \* history: the last file offered to the required slot was refused
    edits,            \* history: number of parameter edits made in this tool instance
    orphans           \* handlers of unmounted instances that are still suspended at an await

vars == <<selectedTool, images, base64s, generatedImages, isLoading,
          loadingMessage, error, params, reads, gens, rejected, edits,
          orphans>>

---------------------------------------------------------------------------
(* Bounds of the model *)

\* fileToBase64 calls that may be pending at once
MaxReads == 2
\* handleGenerateClick invocations that may be suspended at once
MaxGens == 2
\* parameter edits per tool instance
MaxEdits == 1
\* suspended handlers of unmounted instances that are followed to their end
MaxOrphans == 2

---------------------------------------------------------------------------
(* Values *)

\* null, and a present value v
Null == <<>>
Some(v) == <<v>>
Val(o) == o[1]

\* a message is a sequence of text pieces; a template literal concatenates
Msg(s) == <<s>>

Tools == {"idPhoto", "outfitChanger", "beautyCamera", "posterGenerator",
          "socialMediaConverter", "doodleEnhancer"}

\* the four tools with one image slot and the shared handleFileChange
SingleImageTools == {"outfitChanger", "beautyCamera", "socialMediaConverter",
                     "doodleEnhancer"}

AllSlots == {"original", "background", "brooch", "logo"}

Slots(tool) ==
    CASE tool = "idPhoto" -> {"original", "background", "brooch"}
      [] tool = "posterGenerator" -> {"logo"}
      [] tool \in SingleImageTools -> {"original"}
      [] OTHER -> {}

\* the slot handleGenerateClick insists on; the poster tool has none
RequiredSlots(tool) ==
    IF tool \in SingleImageTools \cup {"idPhoto"} THEN {"original"} ELSE {}

SUPPORTED_MIME_TYPES == {"image/jpeg", "image/png", "image/webp"}

\* the files the user may pick (the accept attribute of the input is only a hint)
JpegFile == [name |-> "a.jpg", type |-> "image/jpeg"]
PngFile == [name |-> "b.png", type |-> "image/png"]
WebpFile == [name |-> "c.webp", type |-> "image/webp"]
GifFile == [name |-> "d.gif", type |-> "image/gif"]
UntypedFile == [name |-> "e", type |-> ""]
ValidFiles == {JpegFile, PngFile, WebpFile}
InvalidFiles == {GifFile, UntypedFile}
Files == ValidFiles \cup InvalidFiles

\* the files offered to each input in the model: two of the supported ones
\* (one for the logo and for each image of the ID photo tool) and one
\* unsupported one (both for the logo and for the social media tool)
SelectableFiles(tool, slot) ==
    CASE tool = "socialMediaConverter" -> {JpegFile, PngFile, GifFile, UntypedFile}
      [] tool = "doodleEnhancer" -> {JpegFile, PngFile, UntypedFile}
      [] tool = "outfitChanger" -> {PngFile, WebpFile, GifFile}
      [] tool = "beautyCamera" -> {JpegFile, WebpFile, UntypedFile}
      [] tool = "posterGenerator" -> {WebpFile, GifFile, UntypedFile}
      [] tool = "idPhoto" /\ slot = "original" -> {JpegFile, GifFile}
      [] tool = "idPhoto" /\ slot = "background" -> {WebpFile, UntypedFile}
      [] tool = "idPhoto" /\ slot = "brooch" -> {PngFile, GifFile}
      [] OTHER -> {}

\* FileReader.readAsDataURL: "data:<type>;base64,<content>", held as its
\* comma-separated segments
readAsDataURL(file) == << <<"data:", file.type, ";base64">>, <<"base64", file.name>> >>

\* result.split(',')[1]
fileToBase64(file) == readAsDataURL(file)[2]


---------------------------------------------------------------------------
(* Text and numbers typed into the form.  A text that the code inspects   *)
(* character by character is a sequence of one-character strings.         *)

Whitespace == {" ", "\t", "\n"}
Digits == {"0", "1", "2", "3", "4", "5", "6", "7", "8", "9"}

DigitValue(c) ==
    CASE c = "0" -> 0 [] c = "1" -> 1 [] c = "2" -> 2 [] c = "3" -> 3
      [] c = "4" -> 4 [] c = "5" -> 5 [] c = "6" -> 6 [] c = "7" -> 7
      [] c = "8" -> 8 [] c = "9" -> 9

RECURSIVE TrimStart(_)
TrimStart(s) ==
    IF s # <<>> /\ Head(s) \in Whitespace THEN TrimStart(Tail(s)) ELSE s

RECURSIVE TrimEnd(_)
TrimEnd(s) ==
    IF s # <<>> /\ s[Len(s)] \in Whitespace
    THEN TrimEnd(SubSeq(s, 1, Len(s) - 1)) ELSE s

\* mutant: the blank test forgets to trim
TrimNothing(s) == s

\* String.prototype.trim
Trim(s) == TrimEnd(TrimStart(s))

\* a JavaScript number: an integer n, or NaN
Num(n) == <<n>>
NaN == <<>>
IsNaN(v) == v = NaN

\* the longest prefix of s made of digits
RECURSIVE DigitPrefix(_)
DigitPrefix(s) ==
    IF s # <<>> /\ Head(s) \in Digits THEN <<Head(s)>> \o DigitPrefix(Tail(s))
    ELSE <<>>

RECURSIVE DigitsValue(_)
DigitsValue(ds) ==
    IF ds = <<>> THEN 0
    ELSE 10 * DigitsValue(SubSeq(ds, 1, Len(ds) - 1)) + DigitValue(ds[Len(ds)])

\* parseInt(s, 10): leading white space, a sign, then as many digits as
\* there are; NaN when there is none
parseInt(s) ==
    LET t == TrimStart(s)
        neg == t # <<>> /\ Head(t) = "-"
        u == IF t # <<>> /\ Head(t) \in {"-", "+"} THEN Tail(t) ELSE t
        ds == DigitPrefix(u)
    IN  IF ds = <<>> THEN NaN
        ELSE Num(IF neg THEN 0 - DigitsValue(ds) ELSE DigitsValue(ds))

\* Number(s) for the integer literals: the whole trimmed text must be a
\* signed run of digits; the empty text is 0; anything else is NaN
Number(s) ==
    LET t == Trim(s)
        neg == t # <<>> /\ Head(t) = "-"
        u == IF t # <<>> /\ Head(t) \in {"-", "+"} THEN Tail(t) ELSE t
        ds == DigitPrefix(u)
    IN  IF t = <<>> THEN Num(0)
        ELSE IF ds = <<>> \/ Len(ds) # Len(u) THEN NaN
        ELSE Num(IF neg THEN 0 - DigitsValue(ds) ELSE DigitsValue(ds))

---------------------------------------------------------------------------
(* Parameters of the tools *)

SOCIAL_PLATFORMS == <<"Xiaohongshu", "Instagram", "Facebook", "LinkedIn">>
CLOTHING_STYLES == <<"Sportswear", "Evening Gown", "Business Suit", "Casual Wear">>
BEAUTY_LEVELS == <<"Natural", "Clear Skin", "Makeup", "Enhanced", "Glamour", "Subtle">>
FILTERS == <<"None", "Fresh", "Vintage", "Black & White", "Cinematic", "Retro", "Cool Tone">>
ART_STYLES == <<"Byzantine", "Gothic", "Renaissance", "Baroque", "Rococo",
                "Neoclassicism", "Romanticism", "Realism", "Impressionism",
                "Post-Impressionism", "Fauvism", "Cubism", "Expressionism",
                "Surrealism", "Abstract Expressionism", "Pop Art", "Art Nouveau",
                "Ukiyo-e", "Street Art", "Minimalism", "Psychedelic", "De Stijl",
                "Futurism">>

Range(seq) == {seq[i] : i \in DOMAIN seq}

\* useState initial values
InitialParams(tool) ==
    CASE tool = "idPhoto" ->
            [suitColor |-> "black", shirtColor |-> "white", hasTie |-> TRUE,
             tieColor |-> "deep blue"]
      [] tool = "outfitChanger" ->
            [clothingStyle |-> "Casual Wear", clothingColor |-> "blue"]
      [] tool = "beautyCamera" ->
            [beautyLevel |-> "Natural", faceReshape |-> Num(15),
             bodySlimming |-> Num(20), chestEnhancement |-> Num(10),
             legExtension |-> Num(20), filter |-> "None"]
      [] tool = "posterGenerator" ->
            [industry |-> "Technology",
             elements |-> "A glowing brain, circuit patterns, people collaborating",
             slogan |-> "Innovate the Future", style |-> "Modern and minimalist"]
      [] tool = "socialMediaConverter" -> [platform |-> "Instagram"]
      [] tool = "doodleEnhancer" -> [artStyle |-> "Pop Art", panelCount |-> 3]
      [] OTHER -> [none |-> TRUE]

\* the characters of the texts the user may type into the clothing colour field
Chars(s) ==
    CASE s = "" -> <<>>
      [] s = " " -> <<" ">>
      [] s = "red" -> <<"r", "e", "d">>
      [] s = "blue" -> <<"b", "l", "u", "e">>

\* String.prototype.toLowerCase, on the names it is applied to
toLowerCase(s) ==
    CASE s = "Xiaohongshu" -> "xiaohongshu"
      [] s = "Instagram" -> "instagram"
      [] s = "Facebook" -> "facebook"
      [] s = "LinkedIn" -> "linkedin"
      [] s = "Natural" -> "natural"
      [] s = "Clear Skin" -> "clear skin"
      [] s = "Makeup" -> "makeup"
      [] s = "Enhanced" -> "enhanced"
      [] s = "Glamour" -> "glamour"
      [] s = "Subtle" -> "subtle"
      [] OTHER -> s

DigitChar(d) ==
    CASE d = 0 -> "0" [] d = 1 -> "1" [] d = 2 -> "2" [] d = 3 -> "3"
      [] d = 4 -> "4" [] d = 5 -> "5" [] d = 6 -> "6" [] d = 7 -> "7"
      [] d = 8 -> "8" [] d = 9 -> "9"

RECURSIVE NatToString(_)
NatToString(n) ==
    IF n < 10 THEN DigitChar(n) ELSE NatToString(n \div 10) \o DigitChar(n % 10)

\* a number interpolated into a template literal
NumberToString(v) ==
    IF IsNaN(v) THEN "NaN"
    ELSE IF Val(v) < 0 THEN "-" \o NatToString(0 - Val(v))
    ELSE NatToString(Val(v))

---------------------------------------------------------------------------
(* Prompt builders: a prompt is the sequence of the pieces of its template *)

SocialMediaBuildPrompt(p) ==
    CASE p.platform = "Xiaohongshu" -> <<"Recreate this image with a \"Xiaohongshu\" (Little Red Book) aesthetic. The style should be bright, clean, and visually pleasing with a soft, airy feel. Apply an aesthetic filter that enhances the colors to be slightly desaturated but warm. The overall mood should be aspirational, high-quality, and feel like a lifestyle blogger's post. If it makes sense, add a subtle, clean border.">>
      [] p.platform = "Instagram" -> <<"Transform this image to have a trendy and eye-catching \"Instagram\" style. Boost the vibrancy and contrast to make the colors pop. Sharpen the details for a high-quality look. The final image should be polished, engaging, and designed to stand out on a feed. Apply a modern, popular filter that gives it a professional but authentic look.">>
      [] p.platform = "Facebook" -> <<"Adapt this image for \"Facebook\". The style should be clean, natural, and well-lit. Enhance the colors to be warm and inviting, but avoid overly dramatic filters. The goal is an approachable, authentic image that looks clear and shareable for a general audience. The focus is on clarity and a friendly, community-oriented feel.">>
      [] p.platform = "LinkedIn" -> <<"Convert this image to a professional style suitable for \"LinkedIn\". The aesthetic must be clean, sharp, and polished. Use a more muted, corporate color palette (e.g., emphasizing blues and neutrals). If there is a person, ensure they look competent and trustworthy. The background should be clean and non-distracting. The overall tone must be professional and serious.">>

poseDescription(clothingStyle) ==
    CASE clothingStyle = "Sportswear" -> "The pose should be active and dynamic, as if they are ready for movement."
      [] clothingStyle = "Evening Gown" -> "The pose should be elegant, graceful, and formal, suitable for a black-tie event."
      [] clothingStyle = "Business Suit" -> "The pose should be professional and confident, like a corporate headshot."
      [] clothingStyle = "Casual Wear" -> "The pose should be relaxed, natural, and comfortable."
      [] OTHER -> ""

OutfitBuildPrompt(p) ==
    <<"Take the person in this image and change their outfit to a ",
      p.clothingColor,
      " ",
      p.clothingStyle,
      ". Also, adjust their pose to be more suitable for this new outfit. ",
      poseDescription(p.clothingStyle),
      " It is crucial to maintain the person's original facial features, expression, and identity. The background should remain similar to the original image but can be adjusted slightly for realism.">>

BeautyBuildPrompt(p) ==
    <<"Please perform a professional-grade beautification on the person or people in this portrait, following these specific instructions. It is critical that all changes appear natural and realistic, and that the person's core identity and facial features are preserved. Handle both single and multiple faces if present. Ensure the background remains completely free of distortion.\n\n1.  **Skin Enhancement (Beauty Level: ",
      p.beautyLevel,
      ")**:\n    *   **Goal**: Achieve a ",
      toLowerCase(p.beautyLevel),
      " look.\n    *   **Action**: Smooth the skin to remove blemishes, acne, and oiliness, but you **must** preserve natural skin texture to avoid a \"plastic\" look.\n    *   **Details**: Balance the skin tone, reduce the appearance of wrinkles and dark circles under the eyes, and remove fine facial hair for a clean finish.\n\n2.  **Eye Enhancement**:\n    *   **Action**: Make the eyes appear brighter and more vibrant. Remove any red-eye effect.\n    *   **Makeup**: If applicable based on the beauty level, naturally enhance eye makeup, including eyeliner, eyeshadow, and eyebrows, ensuring it blends perfectly.\n\n3.  **Face Reshaping (Intensity: ",
      NumberToString(p.faceReshape),
      "%)**:\n    *   **Action**: Subtly slim the face and refine the jawline by approximately ",
      NumberToString(p.faceReshape),
      "%. The effect should be gentle and enhance the natural bone structure.\n    *   **Nose**: Add subtle contouring (highlights and shadows) to the nose to give it a more defined and three-dimensional appearance.\n\n4.  **Body & Leg Sculpting**:\n    *   **Body**: Slim the waist and torso by approximately ",
      NumberToString(p.bodySlimming),
      "%.\n    *   **Chest**: Enhance the bust to be fuller by approximately ",
      NumberToString(p.chestEnhancement),
      "%, ensuring the result is natural and proportional to the body frame.\n    *   **Legs**: Elongate the legs by approximately ",
      NumberToString(p.legExtension),
      "% to create a taller, more slender silhouette.\n    *   **Constraint**: All body modifications must be proportional and realistic, without warping the background.\n\n5.  **Virtual Makeup & Filter**:\n    *   **Makeup**: Apply natural-looking virtual makeup, including lipstick, blush, and contouring that complements the person's skin tone. The opacity and color should be subtle and well-blended.\n    *   **Filter**: Apply a '",
      p.filter,
      "' photographic filter to the final image. If 'None' is selected, do not apply any filter.">>

DoodleBuildPrompt(p) ==
    <<"You are an expert storyteller and comic artist. Your task is to take this child's doodle and turn it into a multi-panel comic strip story.\n\n**Instructions:**\n1.  **First Panel:** The provided doodle is the very first panel of the story. It sets the scene and introduces the main character or subject.\n2.  **Story Generation:** Based on the doodle, invent a creative, coherent, and imaginative story that unfolds over a total of **",
      NumberToString(Num(p.panelCount)),
      "** panels. The plot should become more detailed and engaging as the number of panels increases. If the user requests many panels (e.g., 6-9), the story should have a clear beginning, middle, and end.\n3.  **Art Style:** The entire comic strip, including all characters, backgrounds, and panel borders, must be rendered in the **",
      p.artStyle,
      "** art style.\n4.  **Final Output:** Your final output must be a **single image** that contains all ",
      NumberToString(Num(p.panelCount)),
      " panels arranged in a logical grid format (e.g., left-to-right, top-to-bottom), telling the complete story from start to finish. Do not output separate images for each panel.">>

PosterBuildPrompt(p) ==
    <<"Create a high-impact commercial poster for the ",
      p.industry,
      " industry.\n\n**Critical Rules for Slogan Rendering (Absolute Priority):**\n1.  **Language Identification:** Before any design work, you MUST first identify the specific language of the slogan provided: \"",
      p.slogan,
      "\".\n2.  **No Translation:** Under NO circumstances should you translate the slogan. It must be rendered in its original language.\n3.  **High-Fidelity Character Rendering:** This is the most important rule. You must render the slogan onto the poster with perfect accuracy. For languages with complex characters, such as **Chinese, Japanese, or Korean**, it is absolutely critical that every character is rendered with its correct strokes, structure, and form. Do not substitute or misrepresent any character.\n4.  **Aesthetic & Appropriate Typography:** Choose a font and layout for the slogan that is aesthetically pleasing and culturally appropriate for the identified language. For **Chinese characters**, consider a clean Heiti (sans-serif) or an elegant Songti (serif) style that harmonizes with the poster's overall design.\n\n**Poster Design Brief:**\n-   **Key Visual Elements:** The poster must prominently feature: ",
      p.elements,
      ".\n-   **Style:** The overall aesthetic should be: ",
      p.style,
      ".\n-   **Objective:** The poster must be visually compelling, professional, and suitable for a commercial advertising campaign. Do not include any other text besides the required slogan.">>

buildPrompt(tool, p) ==
    CASE tool = "socialMediaConverter" -> SocialMediaBuildPrompt(p)
      [] tool = "outfitChanger" -> OutfitBuildPrompt(p)
      [] tool = "beautyCamera" -> BeautyBuildPrompt(p)
      [] tool = "doodleEnhancer" -> DoodleBuildPrompt(p)
      [] tool = "posterGenerator" -> PosterBuildPrompt(p)

\* a part of a request or of a response
InlineData(data, mimeType) == [inlineData |-> [data |-> data, mimeType |-> mimeType]]
Text(text) == [text |-> text]
IsInlineData(part) == "inlineData" \in DOMAIN part

\* the clauses of the ID photo prompt that depend on the optional images
BackgroundHeading ==
    "\n**Background Instructions:**\n"
SecondImageClause ==
    "- Extract the person from the first image and place them seamlessly onto the **second image**, which serves as the new background.\n"
WhiteBackgroundUnmarked ==
    "- The background must be a solid, pure white color (#FFFFFF), suitable for an official ID photo.\n"
WhiteBackgroundClause ==
    "- The background must be a solid, pure **white color** (#FFFFFF), suitable for an official ID photo.\n"
BroochClause ==
    "\n**Accessory Instructions (Absolute Priority):**\n- Take the **third image (the brooch)** and add it to the person's suit.\n- **Placement:** The brooch MUST be placed on the **upper part of the suit jacket's lapel**. This is a non-negotiable placement.\n- **Sizing:** The brooch MUST be rendered as a **very small and delicate** accessory. It should be an elegant, subtle detail, not a large, distracting object. Its size should be proportional to the lapel.\n- **Realism:** Ensure the brooch's lighting, shadows, and angle perfectly match the suit jacket to make it look completely realistic and naturally pinned on.\n"
ClosingSentence ==
    "\nFinal result must be a high-resolution, professional, and realistic ID photograph."

IDPhotoPromptNamingFile(img, b64, p) ==
    <<"Turn the portrait ", Val(img["original"]).name, " into an ID photo, in a ",
      p.suitColor, " suit jacket.">>

\* IDPhotoGenerator.handleGenerateClick: the text of the prompt, built
\* beside the parts; img and b64 are the images and payloads of the
\* render the click came from
IDPhotoPromptText(img, b64, p) ==
    <<"Your task is to transform the person in the first image into a highly-detailed, professional ID photo based on the following precise instructions. CRITICAL: You must preserve the person's original facial features, hair, and expression exactly as they appear in the source portrait.\n\n">>
    \o <<"**Attire Customization:**\n">>
    \o <<"- The person must be dressed in a formal **",
        p.suitColor,
        " suit jacket**.\n">>
    \o <<"- Underneath the jacket, they must wear a crisp **",
        p.shirtColor,
        " shirt**.\n">>
    \o (IF p.hasTie
        THEN <<"- They must wear a **",
        p.tieColor,
        " tie**, neatly knotted.\n">>
        ELSE <<"- The shirt should be buttoned to the top, but **without a tie**.\n">>)
    \o <<BackgroundHeading>>
    \o (IF img["background"] # Null /\ b64["background"] # Null
        THEN <<SecondImageClause>>
        ELSE <<WhiteBackgroundClause>>)
    \o (IF img["brooch"] # Null /\ b64["brooch"] # Null
        THEN <<BroochClause>>
        ELSE <<>>)
    \o <<ClosingSentence>>

\* IDPhotoGenerator.handleGenerateClick: the parts of the request
IDPhotoParts(img, b64, p) ==
    <<InlineData(Val(b64["original"]), Val(img["original"]).type)>>
    \o (IF img["background"] # Null /\ b64["background"] # Null
        THEN <<InlineData(Val(b64["background"]), Val(img["background"]).type)>>
        ELSE <<>>)
    \o (IF img["brooch"] # Null /\ b64["brooch"] # Null
        THEN <<InlineData(Val(b64["brooch"]), Val(img["brooch"]).type)>>
        ELSE <<>>)
    \o <<Text(IDPhotoPromptText(img, b64, p))>>

\* the parts of the request of a tool with one image
SingleImageParts(tool, img, b64, p) ==
    <<InlineData(Val(b64["original"]), Val(img["original"]).type),
      Text(buildPrompt(tool, p))>>

---------------------------------------------------------------------------
(* The generation service, an opaque collaborator *)

\* the image the service generates for a request
Generated(request) == <<"generated", request>>

\* what an awaited call may throw: an Error, or something that is not one
Thrown == {[isError |-> TRUE, message |-> "Failed to fetch"],
           [isError |-> FALSE, string |-> "quota exceeded"]}

\* mutant: the message text of the error is not passed on
ErrorTextGeneric(err) == "Something went wrong"

\* err instanceof Error ? err.message : String(err)
ErrorText(err) == IF err.isError THEN err.message ELSE err.string

\* the responses generateContent may resolve to: no candidate, a candidate
\* with no part, with text only, with an image, with text and an image
ResponseShapes == {"noCandidates", "noParts", "textOnly", "image", "textAndImage"}

Response(shape, request) ==
    CASE shape = "noCandidates" -> [candidates |-> <<>>]
      [] shape = "noParts" -> [candidates |-> <<[content |-> [parts |-> <<>>]]>>]
      [] shape = "textOnly" ->
            [candidates |-> <<[content |-> [parts |->
                <<Text("Sorry, I cannot help with that.")>>]]>>]
      [] shape = "image" ->
            [candidates |-> <<[content |-> [parts |->
                <<InlineData(Generated(request), "image/png")>>]]>>]
      [] shape = "textAndImage" ->
            [candidates |-> <<[content |-> [parts |->
                <<Text("Here is your image."),
                  InlineData(Generated(request), "image/png")>>]]>>]

\* response.candidates?.[0]?.content?.parts?.find(p => p.inlineData):
\* null, or the first part that carries inline data
FindImagePart(response) ==
    IF response.candidates = <<>> THEN Null
    ELSE LET parts == response.candidates[1].content.parts
             hits == {i \in DOMAIN parts : IsInlineData(parts[i])}
         IN  IF hits = {} THEN Null
             ELSE Some(parts[CHOOSE i \in hits : \A j \in hits : i <= j])

\* numberOfImages of the generateImages call
numberOfImages == 3

\* imageBytes of the k-th image generateImages returns
PosterImage(k) == <<"poster", k>>

---------------------------------------------------------------------------
(* Messages *)

FileTypeName(slot) == IF slot = "original" THEN "portrait" ELSE slot

UnsupportedMessage(tool, slot) ==
    CASE tool = "idPhoto" ->
            <<"Unsupported ", FileTypeName(slot),
              " file type. Please upload a JPEG, PNG, or WEBP image.">>
      [] tool = "posterGenerator" ->
            Msg("Unsupported logo file type. Please upload a JPEG, PNG, or WEBP image.")
      [] OTHER ->
            Msg("Unsupported file type. Please upload a JPEG, PNG, or WEBP image.")

MissingImageMessage(tool) ==
    CASE tool = "idPhoto" -> Msg("Please upload a portrait photo first.")
      [] tool = "doodleEnhancer" -> Msg("Please upload a doodle first.")
      [] OTHER -> Msg("Please upload an image first.")

MissingColorMessage == Msg("Please enter a color for the clothing.")
MissingFieldsMessage == Msg("Please fill out all fields.")

NoImageMessage(tool) ==
    IF tool = "doodleEnhancer"
    THEN Msg("The model did not return an image. This might be due to a safety filter or an issue with the input. Please try a different doodle.")
    ELSE Msg("The model did not return an image. This might be due to a safety filter or an issue with the input. Please try a different photo.")

ThrownMessage(tool, err) ==
    IF tool = "posterGenerator"
    THEN <<"An error occurred: ", ErrorText(err)>>
    ELSE <<"An error occurred while generating the image: ", ErrorText(err)>>

\* mutant: the Error thrown for an empty list carries no message
NoPostersSilent == [isError |-> TRUE, message |-> ""]

\* the Error handleGenerateClick of the poster tool throws itself
NoPostersError ==
    [isError |-> TRUE,
     message |-> "The model did not return any images. This might be due to a safety filter. Please try adjusting your prompt."]

Step1Message(logoImage) ==
    IF logoImage # Null THEN "Step 1/2: Generating posters..." ELSE "Generating posters..."
Step2Message == "Step 2/2: Adding your logo..."

---------------------------------------------------------------------------
(* The App shell *)

NoImages == [s \in AllSlots |-> Null]

Init ==
    /\ selectedTool = "none"
    /\ images = NoImages
    /\ base64s = NoImages
    /\ generatedImages = <<>>
    /\ isLoading = FALSE
    /\ loadingMessage = ""
    /\ error = Null
    /\ params = InitialParams("none")
    /\ reads = EmptyBag
    /\ gens = <<>>
    /\ rejected = FALSE
    /\ edits = 0
    /\ orphans = 0

\* a ToolCard is clicked: the tool is mounted with its useState defaults
SelectTool(tool) ==
    /\ selectedTool = "none"
    /\ selectedTool' = tool
    /\ params' = InitialParams(tool)
    /\ UNCHANGED <<images, base64s, generatedImages, isLoading, loadingMessage,
                   error, reads, gens, rejected, edits, orphans>>

\* Back to Tools: the tool is unmounted and its state discarded; what its
\* suspended handlers do later reaches no mounted component
handleBack ==
    /\ selectedTool # "none"
    /\ selectedTool' = "none"
    /\ images' = NoImages
    /\ base64s' = NoImages
    /\ generatedImages' = <<>>
    /\ isLoading' = FALSE
    /\ loadingMessage' = ""
    /\ error' = Null
    /\ params' = InitialParams("none")
    /\ reads' = EmptyBag
    /\ gens' = <<>>
    /\ rejected' = FALSE
    /\ edits' = 0
    /\ orphans' = orphans

\* the handlers the mounted instance has suspended at an await: its pending
\* reads and its pending service calls
Suspended == BagCardinality(reads) + Len(gens)

\* Back to Tools, with the suspended handlers of the unmounted instance
\* kept in view
handleBackSuspended ==
    /\ selectedTool # "none"
    /\ orphans + Suspended <= MaxOrphans
    /\ selectedTool' = "none"
    /\ images' = NoImages
    /\ base64s' = NoImages
    /\ generatedImages' = <<>>
    /\ isLoading' = FALSE
    /\ loadingMessage' = ""
    /\ error' = Null
    /\ params' = InitialParams("none")
    /\ reads' = EmptyBag
    /\ gens' = <<>>
    /\ rejected' = FALSE
    /\ edits' = 0
    /\ orphans' = orphans + Suspended

\* mutant: the setters of an unmounted instance reach the mounted one
SetOnUnmountedReaches(current, value) == value

\* a state setter called by a handler of an unmounted instance: the state
\* belongs to that instance, and what is mounted keeps its own
SetOnUnmounted(current, value) == current

\* a suspended handler of an unmounted instance resumes (its read or its
\* service call settles, either way) and runs to its end or to its next
\* await: it calls its setters, setBase64 after a read, and the setters of
\* result, error and isLoading after a call
OrphanSettles(kind) ==
    /\ orphans > 0
    /\ orphans' = orphans - 1
    /\ kind \in {"read", "call"}
    /\ IF kind = "read"
       THEN /\ base64s' = SetOnUnmounted(base64s,
                             [base64s EXCEPT !["original"] =
                                 Some(fileToBase64(JpegFile))])
            /\ UNCHANGED <<generatedImages, error, isLoading, loadingMessage>>
       ELSE /\ generatedImages' = SetOnUnmounted(generatedImages,
                                     <<Generated("left instance")>>)
            /\ error' = SetOnUnmounted(error, Null)
            /\ isLoading' = SetOnUnmounted(isLoading, FALSE)
            /\ loadingMessage' = SetOnUnmounted(loadingMessage, "")
            /\ UNCHANGED base64s
    /\ UNCHANGED <<selectedTool, images, params, reads, gens, rejected, edits>>

---------------------------------------------------------------------------
(* File selection *)

\* mutant: GIF slips into the allow-list
SupportedWithGif(type) == type \in SUPPORTED_MIME_TYPES \cup {"image/gif"}

\* SUPPORTED_MIME_TYPES.includes(file.type)
Supported(type) == type \in SUPPORTED_MIME_TYPES

\* mutant: every file-selection handler clears the stored result
ClearsGeneratedEverywhere(tool) == TRUE

\* mutant: no file-selection handler clears the stored result
ClearsGeneratedNowhere(tool) == FALSE

\* the handlers of the four single-image tools begin with
\* setGeneratedImageBase64(null); createHandleFileChange and
\* handleLogoChange do not
ClearsGenerated(tool) == tool \in SingleImageTools

\* mutants: the refusal branch leaves the File, or the payload, in place
ImageKeptAfterReject(previous) == previous
Base64KeptAfterReject(previous) == previous

\* the refusal branch: setImage(null), setBase64(null)
ImageAfterReject(previous) == Null
Base64AfterReject(previous) == Null

\* handleFileChange, createHandleFileChange(...) and handleLogoChange, up to
\* the await; selection is event.target.files?.[0], null when the dialog
\* was cancelled
HandleFileChange(slot, selection) ==
    /\ selectedTool # "none"
    /\ slot \in Slots(selectedTool)
    /\ selection # Null => Val(selection) \in SelectableFiles(selectedTool, slot)
    /\ generatedImages' =
         IF ClearsGenerated(selectedTool) THEN <<>> ELSE generatedImages
    /\ IF selection = Null
       THEN /\ error' = Null
            /\ UNCHANGED <<images, base64s, reads, rejected>>
       ELSE IF ~Supported(Val(selection).type)
       THEN /\ error' = Some(UnsupportedMessage(selectedTool, slot))
            /\ images' = [images EXCEPT ![slot] = ImageAfterReject(@)]
            /\ base64s' = [base64s EXCEPT ![slot] = Base64AfterReject(@)]
            /\ rejected' = IF slot \in RequiredSlots(selectedTool) THEN TRUE
                           ELSE rejected
            /\ UNCHANGED reads
       ELSE /\ BagCardinality(reads) < MaxReads
            /\ error' = Null
            /\ images' = [images EXCEPT ![slot] = selection]
            /\ reads' = reads (+) SetToBag({[slot |-> slot, file |-> Val(selection)]})
            /\ rejected' = IF slot \in RequiredSlots(selectedTool) THEN FALSE
                           ELSE rejected
            /\ UNCHANGED base64s
    /\ UNCHANGED <<selectedTool, isLoading, loadingMessage, params, gens, edits, orphans>>

\* reader.onload: fileToBase64 resolves and the handler goes on to setBase64
FileLoaded(read) ==
    /\ BagIn(read, reads)
    /\ reads' = reads (-) SetToBag({read})
    /\ base64s' = [base64s EXCEPT ![read.slot] = Some(fileToBase64(read.file))]
    /\ UNCHANGED <<selectedTool, images, generatedImages, isLoading,
                   loadingMessage, error, params, gens, rejected, edits,
                   orphans>>

\* reader.onerror: fileToBase64 rejects and the handler ends there
FileReadError(read) ==
    /\ BagIn(read, reads)
    /\ reads' = reads (-) SetToBag({read})
    /\ UNCHANGED <<selectedTool, images, base64s, generatedImages, isLoading,
                   loadingMessage, error, params, gens, rejected, edits,
                   orphans>>

---------------------------------------------------------------------------
(* Parameter edits.  The user's choices and entries are drawn from small  *)
(* sets, and a tool instance sees at most MaxEdits of them.               *)

\* radio buttons, selects: onClick={() => setX(choice)}, setX(e.target.value)
ChoiceInputs(tool) ==
    CASE tool = "socialMediaConverter" ->
            {<<"platform", "Xiaohongshu">>, <<"platform", "LinkedIn">>}
      [] tool = "outfitChanger" -> {<<"clothingStyle", "Business Suit">>}
      [] tool = "beautyCamera" ->
            {<<"beautyLevel", "Glamour">>, <<"filter", "Vintage">>}
      [] tool = "doodleEnhancer" -> {<<"artStyle", "Cubism">>}
      [] tool = "idPhoto" -> {<<"hasTie", FALSE>>}
      [] OTHER -> {}

\* text fields: onChange={e => setX(e.target.value)}
TextInputs(tool) ==
    CASE tool = "outfitChanger" ->
            {<<"clothingColor", "">>, <<"clothingColor", " ">>,
             <<"clothingColor", "red">>}
      [] tool = "idPhoto" -> {<<"tieColor", "red">>}
      [] tool = "posterGenerator" ->
            {<<"industry", "">>, <<"elements", "">>, <<"slogan", "">>,
             <<"style", "">>}
      [] OTHER -> {}

\* the four range inputs of the beauty camera
SliderFields == {"faceReshape", "bodySlimming", "chestEnhancement", "legExtension"}
\* what a change event of a slider or of the panel count may deliver
SliderInputs == {<<"7", "5">>}
PanelCountInputs == {<<"1", "5">>, <<"0">>, <<"7">>, <<>>, <<"-", "3">>,
                     <<"a">>, <<"1", "e", "1">>}

SetChoice(field, choice) ==
    /\ <<field, choice>> \in ChoiceInputs(selectedTool)
    /\ edits < MaxEdits
    /\ edits' = edits + 1
    /\ params' = [params EXCEPT ![field] = choice]
    /\ UNCHANGED <<selectedTool, images, base64s, generatedImages, isLoading,
                   loadingMessage, error, reads, gens, rejected, orphans>>

\* the tie colour field is rendered only while hasTie
SetText(field, text) ==
    /\ <<field, text>> \in TextInputs(selectedTool)
    /\ field = "tieColor" => params.hasTie
    /\ edits < MaxEdits
    /\ edits' = edits + 1
    /\ params' = [params EXCEPT ![field] = text]
    /\ UNCHANGED <<selectedTool, images, base64s, generatedImages, isLoading,
                   loadingMessage, error, reads, gens, rejected, orphans>>

\* onChange={(e) => setFaceReshape(Number(e.target.value))} and its siblings
SetSlider(field, value) ==
    /\ selectedTool = "beautyCamera"
    /\ field \in SliderFields
    /\ edits < MaxEdits
    /\ edits' = edits + 1
    /\ params' = [params EXCEPT ![field] = Number(value)]
    /\ UNCHANGED <<selectedTool, images, base64s, generatedImages, isLoading,
                   loadingMessage, error, reads, gens, rejected, orphans>>

\* DoodleEnhancer.handlePanelCountChange
ClampPanelCount(text) ==
    LET parsed == parseInt(text)
        v1 == IF IsNaN(parsed) THEN 1 ELSE Val(parsed)
        v2 == IF v1 > 9 THEN 9 ELSE v1
    IN  IF v2 < 1 THEN 1 ELSE v2

handlePanelCountChange(text) ==
    /\ selectedTool = "doodleEnhancer"
    /\ edits < MaxEdits
    /\ edits' = edits + 1
    /\ params' = [params EXCEPT !.panelCount = ClampPanelCount(text)]
    /\ UNCHANGED <<selectedTool, images, base64s, generatedImages, isLoading,
                   loadingMessage, error, reads, gens, rejected, orphans>>

---------------------------------------------------------------------------
(* Generation: the tools that send images to generateContent *)

\* mutant: the button forgets isLoading
GenerateDisabledIgnoresLoading(tool) ==
    IF tool = "posterGenerator" THEN FALSE ELSE images["original"] = Null

\* the disabled attribute of the Generate button
GenerateDisabled(tool) ==
    IF tool = "posterGenerator" THEN isLoading
    ELSE images["original"] = Null \/ isLoading

\* mutant: a settled call stays outstanding, as if it were issued again
RemoveNothing(seq, i) == seq

\* the handler invocation i has run to its end
RemoveAt(seq, i) == SubSeq(seq, 1, i - 1) \o SubSeq(seq, i + 1, Len(seq))

\* mutant: setIsLoading(false) sits at the end of the try block, not in finally
LoadingAfterGenerateNoFinally(outcome) == outcome = "throw"

\* mutant: nothing resets isLoading
LoadingAfterGenerateStuck(outcome) == TRUE

\* the finally block: setIsLoading(false)
LoadingAfterGenerate(outcome) == FALSE

\* mutant: the start of a generation leaves the stored result in place
ResultKeptAfterStart(previous) == previous

\* setGeneratedImageBase64(null) / setGeneratedImages([]) before the try block
ResultAfterStart(previous) == <<>>

\* handleGenerateClick of the ID photo tool and of the four single-image
\* tools, up to await ai.models.generateContent(...)
handleGenerateClick ==
    /\ selectedTool \in SingleImageTools \cup {"idPhoto"}
    /\ ~GenerateDisabled(selectedTool)
    /\ IF images["original"] = Null \/ base64s["original"] = Null
       THEN /\ error' = Some(MissingImageMessage(selectedTool))
            /\ UNCHANGED <<isLoading, generatedImages, gens>>
       ELSE IF selectedTool = "outfitChanger"
               /\ Trim(Chars(params.clothingColor)) = <<>>
       THEN /\ error' = Some(MissingColorMessage)
            /\ UNCHANGED <<isLoading, generatedImages, gens>>
       ELSE /\ Len(gens) < MaxGens
            /\ isLoading' = TRUE
            /\ error' = Null
            /\ generatedImages' = ResultAfterStart(generatedImages)
            /\ gens' = Append(gens,
                 [request |->
                    [model |-> "gemini-2.5-flash-image-preview",
                     parts |-> IF selectedTool = "idPhoto"
                               THEN IDPhotoParts(images, base64s, params)
                               ELSE SingleImageParts(selectedTool, images,
                                                     base64s, params)]])
    /\ UNCHANGED <<selectedTool, images, base64s, loadingMessage, params,
                   reads, rejected, edits, orphans>>

\* generateContent resolves: the rest of the try block, then finally
GenerateContentReturns(i, shape) ==
    /\ selectedTool \in SingleImageTools \cup {"idPhoto"}
    /\ i \in DOMAIN gens
    /\ LET response == Response(shape, gens[i].request)
           imagePart == FindImagePart(response)
       IN  IF imagePart # Null
           THEN /\ generatedImages' = <<Val(imagePart).inlineData.data>>
                /\ UNCHANGED error
           ELSE /\ error' = Some(NoImageMessage(selectedTool))
                /\ UNCHANGED generatedImages
    /\ isLoading' = LoadingAfterGenerate("return")
    /\ gens' = RemoveAt(gens, i)
    /\ UNCHANGED <<selectedTool, images, base64s, loadingMessage, params,
                   reads, rejected, edits, orphans>>

\* generateContent rejects: catch, then finally
GenerateContentThrows(i, err) ==
    /\ selectedTool \in SingleImageTools \cup {"idPhoto"}
    /\ i \in DOMAIN gens
    /\ err \in Thrown
    /\ error' = Some(ThrownMessage(selectedTool, err))
    /\ isLoading' = LoadingAfterGenerate("throw")
    /\ gens' = RemoveAt(gens, i)
    /\ UNCHANGED <<selectedTool, images, base64s, generatedImages,
                   loadingMessage, params, reads, rejected, edits, orphans>>

---------------------------------------------------------------------------
(* Generation: the poster tool *)

\* PosterGenerator.handleGenerateClick, up to await ai.models.generateImages;
\* the logo is the one of the render the click came from
handlePosterGenerateClick ==
    /\ selectedTool = "posterGenerator"
    /\ ~GenerateDisabled(selectedTool)
    /\ IF params.industry = "" \/ params.elements = "" \/ params.slogan = ""
          \/ params.style = ""
       THEN /\ error' = Some(MissingFieldsMessage)
            /\ UNCHANGED <<isLoading, generatedImages, loadingMessage, gens>>
       ELSE /\ Len(gens) < MaxGens
            /\ isLoading' = TRUE
            /\ error' = Null
            /\ generatedImages' = ResultAfterStart(generatedImages)
            /\ loadingMessage' = Step1Message(images["logo"])
            /\ gens' = Append(gens,
                 [stage |-> "generateImages",
                  request |-> [model |-> "imagen-4.0-generate-001",
                               prompt |-> buildPrompt(selectedTool, params),
                               config |-> [numberOfImages |-> numberOfImages,
                                           outputMimeType |-> "image/png",
                                           aspectRatio |-> "3:4"]],
                  logoImage |-> images["logo"],
                  logoImageBase64 |-> base64s["logo"]])
    /\ UNCHANGED <<selectedTool, images, base64s, params, reads, rejected, edits, orphans>>

\* the catch and finally blocks of PosterGenerator.handleGenerateClick
PosterFails(i, err) ==
    /\ error' = Some(ThrownMessage(selectedTool, err))
    /\ isLoading' = LoadingAfterGenerate("throw")
    /\ loadingMessage' = ""
    /\ gens' = RemoveAt(gens, i)
    /\ UNCHANGED <<selectedTool, images, base64s, generatedImages, params,
                   reads, rejected, edits, orphans>>

\* setGeneratedImages(posters), then the finally block
PosterSucceeds(i, posters) ==
    /\ generatedImages' = posters
    /\ isLoading' = LoadingAfterGenerate("return")
    /\ loadingMessage' = ""
    /\ gens' = RemoveAt(gens, i)
    /\ UNCHANGED <<selectedTool, images, base64s, error, params, reads,
                   rejected, edits, orphans>>

\* the request addLogoToPoster sends for one poster
AddLogoRequest(posterBase64, gen) ==
    [model |-> "gemini-2.5-flash-image-preview",
     parts |-> <<InlineData(posterBase64, "image/png"),
                 InlineData(Val(gen.logoImageBase64), Val(gen.logoImage).type),
                 Text(<<"Take this poster (the first image) and seamlessly integrate this logo (the second image) into it. Place the logo in a natural, professional-looking position where it is visible but not obstructing key elements, such as a corner or an area with clear space. Ensure the logo's size is appropriate for the poster's design and it looks like it was part of the original design.">>)>>]

\* what generateImages may resolve to: generatedImages undefined, or the
\* number of images in the list
ImageLists == {Null} \cup {Some(n) : n \in 0 .. numberOfImages}

\* generateImages resolves, with generatedImages undefined (Null) or a list
\* of n images.
\* With a logo payload, addLogoToPoster runs for every poster: it returns
\* the poster at once when the logo File is missing, and otherwise awaits
\* its own generateContent call
GenerateImagesReturns(i, returned) ==
    /\ selectedTool = "posterGenerator"
    /\ i \in DOMAIN gens
    /\ gens[i].stage = "generateImages"
    /\ returned \in ImageLists
    /\ IF returned = Null \/ Val(returned) = 0
       THEN PosterFails(i, NoPostersError)
       ELSE LET n == Val(returned)
                posters == [k \in 1 .. n |-> PosterImage(k)]
                gen == gens[i]
            IN  IF gen.logoImageBase64 = Null
                THEN PosterSucceeds(i, posters)
                ELSE IF gen.logoImage = Null
                THEN PosterSucceeds(i, posters)
                ELSE /\ loadingMessage' = Step2Message
                     /\ gens' = [gens EXCEPT ![i] =
                          [stage |-> "addLogo",
                           logoImage |-> gen.logoImage,
                           logoImageBase64 |-> gen.logoImageBase64,
                           posters |-> posters,
                           results |-> [k \in 1 .. n |-> Null]]]
                     /\ UNCHANGED <<selectedTool, images, base64s,
                                    generatedImages, isLoading, error, params,
                                    reads, rejected, edits, orphans>>

\* generateImages rejects
GenerateImagesThrows(i, err) ==
    /\ selectedTool = "posterGenerator"
    /\ i \in DOMAIN gens
    /\ gens[i].stage = "generateImages"
    /\ err \in Thrown
    /\ PosterFails(i, err)

\* mutant: a response without an image leaves the slot without a poster
AddLogoResultDropsPoster(posterBase64, response) ==
    LET imagePart == FindImagePart(response)
    IN  IF imagePart # Null THEN Val(imagePart).inlineData.data
        ELSE <<"poster", 0>>

\* what addLogoToPoster returns for a response
AddLogoResult(posterBase64, response) ==
    LET imagePart == FindImagePart(response)
    IN  IF imagePart # Null THEN Val(imagePart).inlineData.data
        ELSE posterBase64

\* mutant: the posters composited so far are presented at once
JoinedEarly(results) ==
    LET done == SelectSeq(results, LAMBDA r : r # Null)
    IN  Some([j \in DOMAIN done |-> Val(done[j])])

\* await Promise.all(logoAddPromises): the list of results once every
\* promise has resolved, nothing before
Joined(results) ==
    IF \A j \in DOMAIN results : results[j] # Null
    THEN Some([j \in DOMAIN results |-> Val(results[j])])
    ELSE Null

\* the generateContent call of addLogoToPoster for poster k resolves;
\* Promise.all resolves when it was the last one pending
AddLogoReturns(i, k, shape) ==
    /\ selectedTool = "posterGenerator"
    /\ i \in DOMAIN gens
    /\ gens[i].stage = "addLogo"
    /\ k \in DOMAIN gens[i].results
    /\ gens[i].results[k] = Null
    /\ LET response == Response(shape, AddLogoRequest(gens[i].posters[k], gens[i]))
           results == [gens[i].results EXCEPT ![k] =
                          Some(AddLogoResult(gens[i].posters[k], response))]
       IN  IF Joined(results) # Null
           THEN PosterSucceeds(i, Val(Joined(results)))
           ELSE /\ gens' = [gens EXCEPT ![i].results = results]
                /\ UNCHANGED <<selectedTool, images, base64s, generatedImages,
                               isLoading, loadingMessage, error, params, reads,
                               rejected, edits, orphans>>

\* the generateContent call of addLogoToPoster for poster k rejects:
\* addLogoToPoster catches nothing, so Promise.all rejects at once and the
\* calls still pending are left to settle unobserved
AddLogoThrows(i, k, err) ==
    /\ selectedTool = "posterGenerator"
    /\ i \in DOMAIN gens
    /\ gens[i].stage = "addLogo"
    /\ k \in DOMAIN gens[i].results
    /\ gens[i].results[k] = Null
    /\ err \in Thrown
    /\ PosterFails(i, err)

---------------------------------------------------------------------------
(* The specification *)

Selections == {Null} \cup {Some(f) : f \in Files}
PendingReads == {[slot |-> s, file |-> f] : s \in AllSlots, f \in ValidFiles}
GenIndexes == 1 .. MaxGens
PosterIndexes == 1 .. numberOfImages
\* the steps of the mounted tool, and the opening of one
ToolStep ==
    \/ \E tool \in Tools : SelectTool(tool)
    \/ \E slot \in AllSlots, selection \in Selections : HandleFileChange(slot, selection)
    \/ \E read \in PendingReads : FileLoaded(read)
    \/ \E read \in PendingReads : FileReadError(read)
    \/ \E input \in ChoiceInputs(selectedTool) : SetChoice(input[1], input[2])
    \/ \E input \in TextInputs(selectedTool) : SetText(input[1], input[2])
    \/ \E field \in SliderFields, value \in SliderInputs : SetSlider(field, value)
    \/ \E text \in PanelCountInputs : handlePanelCountChange(text)
    \/ handleGenerateClick
    \/ \E i \in GenIndexes, shape \in ResponseShapes : GenerateContentReturns(i, shape)
    \/ \E i \in GenIndexes, err \in Thrown : GenerateContentThrows(i, err)
    \/ handlePosterGenerateClick
    \/ \E i \in GenIndexes, returned \in ImageLists :
         GenerateImagesReturns(i, returned)
    \/ \E i \in GenIndexes, err \in Thrown : GenerateImagesThrows(i, err)
    \/ \E i \in GenIndexes, k \in PosterIndexes, shape \in ResponseShapes :
         AddLogoReturns(i, k, shape)
    \/ \E i \in GenIndexes, k \in PosterIndexes, err \in Thrown : AddLogoThrows(i, k, err)

\* the mounted instance alone: what the handlers of an unmounted instance
\* do after Back is not followed
Next ==
    \/ ToolStep
    \/ handleBack

Spec == Init /\ [][Next]_vars

\* the same, with the suspended handlers of unmounted instances followed
LifecycleNext ==
    \/ ToolStep
    \/ handleBackSuspended
    \/ \E kind \in {"read", "call"} : OrphanSettles(kind)

LifecycleSpec == Init /\ [][LifecycleNext]_vars

\* every service call that is outstanding settles in the end
Settles ==
    \/ \E i \in GenIndexes, shape \in ResponseShapes : GenerateContentReturns(i, shape)
    \/ \E i \in GenIndexes, err \in Thrown : GenerateContentThrows(i, err)
    \/ \E i \in GenIndexes, returned \in ImageLists : GenerateImagesReturns(i, returned)
    \/ \E i \in GenIndexes, err \in Thrown : GenerateImagesThrows(i, err)
    \/ \E i \in GenIndexes, k \in PosterIndexes, shape \in ResponseShapes :
         AddLogoReturns(i, k, shape)
    \/ \E i \in GenIndexes, k \in PosterIndexes, err \in Thrown : AddLogoThrows(i, k, err)

FairSpec == Spec /\ WF_vars(Settles)

---------------------------------------------------------------------------
(* Properties *)

AllowList == {"image/jpeg", "image/png", "image/webp"}

\* a step of the file-selection handler of a slot with a file of a type
\* outside / inside the allow-list
RejectStep(slot, file) ==
    /\ file.type \notin AllowList
    /\ HandleFileChange(slot, Some(file))
AcceptStep(slot, file) ==
    /\ file.type \in AllowList
    /\ HandleFileChange(slot, Some(file))

\* a step that starts a generation
StartsGeneration == Len(gens') > Len(gens)

\* C1: in a tool instance at most one generation is outstanding at any
\* time, and while isLoading is true no step starts another one
C1_SingleInFlight ==
    /\ [](Len(gens) <= 1)
    /\ [][isLoading => ~StartsGeneration]_vars

C1_Witness == isLoading /\ Len(gens) = 1

\* C2 (as claimed): in the poster tool with a logo, when the compositing
\* call of poster k throws, no error is surfaced and slot k keeps its step-1
\* poster: in the results being joined, or in the stored list, which has as
\* many images as step 1 returned
C2_LogoFailureFallsBack ==
    [][\A i \in GenIndexes, k \in PosterIndexes, err \in Thrown :
          AddLogoThrows(i, k, err) =>
             /\ error' = Null
             /\ IF i \in DOMAIN gens' /\ gens'[i].stage = "addLogo"
                THEN gens'[i].results[k] = Some(gens[i].posters[k])
                ELSE /\ Len(generatedImages') = Len(gens[i].posters)
                     /\ generatedImages'[k] = gens[i].posters[k]]_vars

\* C3 (as claimed): an error message never coexists with a generation in
\* flight nor with a stored result
C3_ErrorExclusive ==
    error # Null => (~isLoading /\ generatedImages = <<>>)

\* C4: every started generation ends with isLoading false, and the step
\* that ends it leaves a stored result or an error message
C4_GenerationEnds ==
    /\ isLoading ~> ~isLoading
    /\ [][(isLoading /\ ~isLoading' /\ selectedTool' = selectedTool) =>
             (generatedImages' # <<>> \/ error' # Null)]_vars

C4_Witness ==
    /\ selectedTool # "none"
    /\ ~isLoading
    /\ gens = <<>>
    /\ generatedImages # <<>> \/ error \in {Some(NoImageMessage(selectedTool))}
                                          \cup {Some(ThrownMessage(selectedTool, err)) : err \in Thrown}

\* C5 (as claimed): when generateContent returns to a tool, a response
\* without an inline image part sets the error and leaves the result empty,
\* and a response with one stores exactly its payload and leaves the error
\* empty
C5_ResultHandler ==
    [][\A i \in GenIndexes, shape \in ResponseShapes :
          GenerateContentReturns(i, shape) =>
             LET parts == IF shape = "noCandidates" THEN <<>>
                          ELSE Response(shape, gens[i].request).candidates[1].content.parts
                 images0 == {j \in DOMAIN parts : IsInlineData(parts[j])}
             IN  IF images0 = {}
                 THEN error' # Null /\ generatedImages' = <<>>
                 ELSE /\ \E j \in images0 :
                            generatedImages' = <<parts[j].inlineData.data>>
                      /\ error' = Null]_vars

\* C6: a file whose type is outside the allow-list sets the error to the
\* unsupported-file message and clears the File and the payload of its slot;
\* a file becomes the slot's image only when its type is in the list
C6_RejectClearsSlot ==
    [][\A slot \in Slots(selectedTool) :
       \A file \in SelectableFiles(selectedTool, slot) :
          HandleFileChange(slot, Some(file)) =>
             IF file.type \notin AllowList
             THEN /\ error' = Some(UnsupportedMessage(selectedTool, slot))
                  /\ images'[slot] = Null
                  /\ base64s'[slot] = Null
             ELSE images'[slot] = Some(file)]_vars

\* a payload that was sent in a request has since been cleared by a refusal
C6_Witness ==
    /\ selectedTool \in SingleImageTools
    /\ gens # <<>>
    /\ rejected
    /\ error = Some(UnsupportedMessage(selectedTool, "original"))
    /\ images["original"] = Null
    /\ base64s["original"] = Null

\* C7 (as claimed): a file of a listed type is accepted; any other is
\* refused, and the refusal changes nothing but the error message
C7_RejectLeavesSlot ==
    [][\A slot \in Slots(selectedTool) :
       \A file \in SelectableFiles(selectedTool, slot) :
          /\ AcceptStep(slot, file) => images'[slot] = Some(file)
          /\ RejectStep(slot, file) =>
                /\ images' = images
                /\ base64s' = base64s
                /\ UNCHANGED <<selectedTool, generatedImages, isLoading,
                               loadingMessage, params, reads, gens>>]_vars

\* C7 (amended): a file of a listed type is accepted; any other is refused,
\* and the refusal clears the File and the payload of that slot and, in the
\* four single-image tools, the stored result, sets the error message, and
\* changes nothing else
C7_RejectClearsOnlySlot ==
    [][\A slot \in Slots(selectedTool) :
       \A file \in SelectableFiles(selectedTool, slot) :
          /\ AcceptStep(slot, file) => images'[slot] = Some(file)
          /\ RejectStep(slot, file) =>
                /\ images' = [images EXCEPT ![slot] = Null]
                /\ base64s' = [base64s EXCEPT ![slot] = Null]
                /\ error' # Null
                /\ generatedImages' = IF selectedTool \in SingleImageTools
                                      THEN <<>> ELSE generatedImages
                /\ UNCHANGED <<selectedTool, isLoading, loadingMessage,
                               params, reads, gens>>]_vars

\* the ID photo tool after a refused portrait: the portrait is gone, the
\* background and the stored result are still there
C7_Witness ==
    /\ selectedTool = "idPhoto"
    /\ rejected
    /\ error = Some(UnsupportedMessage("idPhoto", "original"))
    /\ images["original"] = Null
    /\ base64s["original"] = Null
    /\ images["background"] # Null
    /\ base64s["background"] # Null
    /\ generatedImages # <<>>

\* C8 (as claimed): in every tool and slot, accepting a supported file
\* clears the error message and the stored result
C8_AcceptClears ==
    [][\A slot \in Slots(selectedTool) :
       \A file \in SelectableFiles(selectedTool, slot) :
          AcceptStep(slot, file) =>
             error' = Null /\ generatedImages' = <<>>]_vars

\* the user images of the requests a suspended generation has issued
UserImageParts(gen) ==
    IF "stage" \notin DOMAIN gen
    THEN {gen.request.parts[j] :
            j \in {n \in DOMAIN gen.request.parts : IsInlineData(gen.request.parts[n])}}
    ELSE IF gen.stage = "addLogo"
    THEN {AddLogoRequest(gen.posters[k], gen).parts[2] : k \in DOMAIN gen.posters}
    ELSE {}

\* C9: every File held in a slot has a type of the allow-list, and so has
\* every user image of a request
C9_HeldTypesSupported ==
    /\ \A slot \in AllSlots :
          images[slot] # Null => Val(images[slot]).type \in AllowList
    /\ \A i \in DOMAIN gens :
          \A part \in UserImageParts(gens[i]) :
             part.inlineData.mimeType \in AllowList

C9_Witness ==
    /\ \E slot \in AllSlots : images[slot] # Null
    /\ \E i \in DOMAIN gens : UserImageParts(gens[i]) # {}

\* C10: refusing a file for the required slot sets the unsupported-file
\* message, and from then until a supported file is accepted for that slot
\* no step starts a generation
C10_NoRequestAfterReject ==
    [][/\ \A file \in Files :
             RejectStep("original", file) =>
                error' = Some(UnsupportedMessage(selectedTool, "original"))
       /\ rejected => ~StartsGeneration]_vars

\* the read of an earlier, supported file completed after the refusal
C10_Witness ==
    /\ rejected
    /\ error = Some(UnsupportedMessage(selectedTool, "original"))
    /\ images["original"] = Null
    /\ base64s["original"] # Null

\* the results the response to a suspended generation may store
OwnResults(gen) ==
    IF "stage" \notin DOMAIN gen
    THEN {<<Generated(gen.request)>>}
    ELSE IF gen.stage = "generateImages"
    THEN {[k \in 1 .. n |-> PosterImage(k)] : n \in 1 .. numberOfImages}
    ELSE {list \in [DOMAIN gen.posters ->
                      {gen.posters[k] : k \in DOMAIN gen.posters}
                      \cup {Generated(AddLogoRequest(gen.posters[k], gen)) :
                              k \in DOMAIN gen.posters}] :
            \A k \in DOMAIN list :
               list[k] \in {gen.posters[k],
                            Generated(AddLogoRequest(gen.posters[k], gen))}}

\* C11: the step that starts a generation clears the stored result and the
\* error; the result is empty for as long as the generation is in flight;
\* and the result stored when it ends is one its own response gives
C11_ResultClearedAtStart ==
    /\ [](gens # <<>> => generatedImages = <<>>)
    /\ [][/\ StartsGeneration => (generatedImages' = <<>> /\ error' = Null)
          /\ (gens # <<>> /\ generatedImages' # <<>>) =>
                generatedImages' \in OwnResults(gens[1])]_vars

C11_Witness ==
    /\ isLoading
    /\ gens # <<>>
    /\ generatedImages = <<>>
    /\ error = Null

\* a required input is missing at the click: the required image or its
\* payload, a clothing colour that is empty or all blanks, an empty field of
\* the poster form
MissingInput ==
    IF selectedTool = "posterGenerator"
    THEN \E field \in {"industry", "elements", "slogan", "style"} :
            params[field] = ""
    ELSE \/ images["original"] = Null
         \/ base64s["original"] = Null
         \/ /\ selectedTool = "outfitChanger"
            /\ \A j \in DOMAIN Chars(params.clothingColor) :
                  Chars(params.clothingColor)[j] = " "

\* C12: a Generate click with a required input missing sets an error
\* message, issues no service call and leaves isLoading false
C12_MissingInputBlocks ==
    [][((handleGenerateClick \/ handlePosterGenerateClick) /\ MissingInput) =>
          /\ error' # Null
          /\ gens' = gens
          /\ isLoading' = FALSE]_vars

\* the outfit changer after a click with a clothing colour of one blank
C12_Witness ==
    /\ selectedTool = "outfitChanger"
    /\ params.clothingColor = " "
    /\ error = Some(MissingColorMessage)
    /\ ~isLoading
    /\ gens = <<>>

\* a step in which a generation of the mounted tool ends without a result
EndsInFailure ==
    /\ Len(gens') < Len(gens)
    /\ selectedTool' = selectedTool
    /\ generatedImages' = <<>>

\* C13: the step that ends a generation in failure leaves isLoading false
\* and the held images, their payloads and the parameters as they were, and
\* the Generate button is enabled after it whenever the required image is
\* still held
C13_ResubmittableAfterFailure ==
    [][EndsInFailure =>
          /\ isLoading' = FALSE
          /\ error' # Null
          /\ UNCHANGED <<images, base64s, params>>
          /\ (selectedTool = "posterGenerator" \/ images["original"] # Null)
                => ~GenerateDisabled(selectedTool)']_vars

\* a failed generation with the submitted image still in place
C13_Witness ==
    /\ selectedTool \in SingleImageTools \cup {"idPhoto"}
    /\ error \in {Some(NoImageMessage(selectedTool))}
                 \cup {Some(ThrownMessage(selectedTool, err)) : err \in Thrown}
    /\ ~isLoading
    /\ gens = <<>>
    /\ generatedImages = <<>>
    /\ images["original"] # Null
    /\ base64s["original"] # Null
    /\ ~GenerateDisabled(selectedTool)

\* the service calls a suspended generation is waiting for
PendingCalls(gen) ==
    IF "stage" \notin DOMAIN gen THEN 1
    ELSE IF gen.stage = "generateImages" THEN 1
    ELSE Cardinality({k \in DOMAIN gen.results : gen.results[k] = Null})

RECURSIVE SumCalls(_)
SumCalls(seq) ==
    IF seq = <<>> THEN 0 ELSE PendingCalls(Head(seq)) + SumCalls(Tail(seq))

\* the service calls outstanding
Calls == SumCalls(gens)

\* a Generate click that passed the handler's checks
AcceptedClick == ~isLoading /\ isLoading'

\* step 1 of a poster generation hands over to the compositing calls
StartsCompositing ==
    /\ gens # <<>>
    /\ gens' # <<>>
    /\ selectedTool = "posterGenerator"
    /\ selectedTool' = selectedTool
    /\ gens[1].stage = "generateImages"
    /\ gens'[1].stage = "addLogo"

\* C14: an accepted Generate click issues exactly one call, the primary one;
\* the only other step that issues calls is the return of the poster's step
\* 1, with at most one compositing call per poster; and a call that has
\* settled is not outstanding again
C14_NoAutomaticRetry ==
    [][/\ AcceptedClick =>
             /\ Calls' = Calls + 1
             /\ Len(gens') = Len(gens) + 1
             /\ LET gen == gens'[Len(gens')]
                IN  "stage" \in DOMAIN gen => gen.stage = "generateImages"
       /\ Calls' > Calls =>
             \/ AcceptedClick
             \/ /\ StartsCompositing
                /\ Calls' <= Len(gens'[1].posters)
       /\ Settles => (Calls' < Calls \/ StartsCompositing)]_vars

\* the poster tool with a logo after a failed generation: nothing outstanding
C14_Witness ==
    /\ selectedTool = "posterGenerator"
    /\ images["logo"] # Null
    /\ base64s["logo"] # Null
    /\ error \in {Some(ThrownMessage(selectedTool, err)) : err \in Thrown}
    /\ ~isLoading
    /\ Calls = 0

\* C15: in the poster tool compositing calls exist only for posters that
\* step 1 has returned, nothing is presented while one of them is
\* outstanding, and the step that stores the list finds every other
\* compositing call settled and stores one image per step-1 poster
C15_CompositingJoined ==
    /\ [](\A i \in DOMAIN gens :
             (selectedTool = "posterGenerator" /\ gens[i].stage = "addLogo") =>
                /\ generatedImages = <<>>
                /\ Len(gens[i].posters) >= 1
                /\ DOMAIN gens[i].results = DOMAIN gens[i].posters)
    /\ [][(/\ selectedTool = "posterGenerator"
           /\ gens # <<>>
           /\ generatedImages' # <<>>) =>
             /\ PendingCalls(gens[1]) = 1
             /\ Calls' = 0
             /\ gens[1].stage = "addLogo" =>
                   Len(generatedImages') = Len(gens[1].posters)]_vars

\* two compositing calls have settled, the third is outstanding, and
\* nothing is presented yet
C15_Witness ==
    /\ selectedTool = "posterGenerator"
    /\ gens # <<>>
    /\ gens[1].stage = "addLogo"
    /\ Len(gens[1].posters) = numberOfImages
    /\ PendingCalls(gens[1]) = 1
    /\ generatedImages = <<>>
    /\ isLoading

RECURSIVE Pow10(_)
Pow10(n) == IF n = 0 THEN 1 ELSE 10 * Pow10(n - 1)

\* the number an entry of the number field denotes (valueAsNumber), for the
\* integer literals with an optional exponent; NaN for any other text
valueAsNumber(s) ==
    LET neg == s # <<>> /\ Head(s) = "-"
        u == IF s # <<>> /\ Head(s) \in {"-", "+"} THEN Tail(s) ELSE s
        ds == DigitPrefix(u)
        rest == SubSeq(u, Len(ds) + 1, Len(u))
        abs == IF rest = <<>> THEN Num(DigitsValue(ds))
               ELSE IF /\ Head(rest) = "e"
                       /\ Tail(rest) # <<>>
                       /\ DigitPrefix(Tail(rest)) = Tail(rest)
               THEN Num(DigitsValue(ds) * Pow10(DigitsValue(Tail(rest))))
               ELSE NaN
    IN  IF ds = <<>> \/ IsNaN(abs) THEN NaN
        ELSE IF neg THEN Num(0 - Val(abs)) ELSE abs

\* C16 (as claimed): in the doodle tool panelCount is always in 1..9, and an
\* entry in the panel count field stores 9 when it is above 9, 1 when it is
\* below 1 or not a number, itself otherwise, and sets no error
C16_PanelCountClamped ==
    /\ [](selectedTool = "doodleEnhancer" => params.panelCount \in 1 .. 9)
    /\ [][\A text \in PanelCountInputs :
             handlePanelCountChange(text) =>
                LET v == valueAsNumber(text)
                IN  /\ params'.panelCount =
                          IF IsNaN(v) THEN 1
                          ELSE IF Val(v) > 9 THEN 9
                          ELSE IF Val(v) < 1 THEN 1
                          ELSE Val(v)
                    /\ error' = error]_vars

IssuedPrompt ==
    LET parts == gens'[Len(gens')].request.parts
    IN  parts[Len(parts)].text

\* an optional image of the ID photo tool is left out of the request
Absent(slot) == images[slot] = Null \/ base64s[slot] = Null

Position(seq, piece) == CHOOSE i \in DOMAIN seq : seq[i] = piece

\* what the ID photo prompt says about the background: the piece after the
\* heading; and about the accessory: the pieces between that one and the
\* closing sentence
BackgroundPart(prompt) == prompt[Position(prompt, BackgroundHeading) + 1]
AccessoryPart(prompt) ==
    SubSeq(prompt, Position(prompt, BackgroundHeading) + 2, Len(prompt) - 1)

\* C18 (as claimed): an ID photo request issued without the background
\* image, or without the brooch image, carries a prompt with an instruction
\* in the place of that aspect
C18_FallbackForAbsentImage ==
    [][(selectedTool = "idPhoto" /\ StartsGeneration) =>
          /\ Absent("background") =>
                BackgroundPart(IssuedPrompt) \notin {SecondImageClause, ClosingSentence}
          /\ Absent("brooch") => AccessoryPart(IssuedPrompt) # <<>>]_vars

\* promptText after its last +=: the pieces appended, as one string
RECURSIVE Concat(_)
Concat(pieces) ==
    IF pieces = <<>> THEN "" ELSE Head(pieces) \o Concat(Tail(pieces))

\* whether the text holds the literal, character for character
includes(text, literal) ==
    \E i \in 1 .. (Len(text) - Len(literal) + 1) :
       SubSeq(text, i, i + Len(literal) - 1) = literal

\* the image parts of the request the step issues, in order
IssuedImages ==
    SelectSeq(gens'[Len(gens')].request.parts, IsInlineData)

\* the image parts of an ID photo request that leaves the background out
WithoutBackground ==
    <<InlineData(Val(base64s["original"]), Val(images["original"]).type)>>
    \o (IF Absent("brooch")
        THEN <<>>
        ELSE <<InlineData(Val(base64s["brooch"]), Val(images["brooch"]).type)>>)

\* the values a parameter takes: its initial value and what the inputs
\* deliver
ParamValues(tool, field) ==
    {InitialParams(tool)[field]}
    \cup {input[2] : input \in {c \in ChoiceInputs(tool) : c[1] = field}}
    \cup {input[2] : input \in {t \in TextInputs(tool) : t[1] = field}}

IDPhotoParams ==
    [suitColor : ParamValues("idPhoto", "suitColor"),
     shirtColor : ParamValues("idPhoto", "shirtColor"),
     hasTie : ParamValues("idPhoto", "hasTie"),
     tieColor : ParamValues("idPhoto", "tieColor")]

\* which optional images a click finds with their payload
Holdings ==
    {[slot \in {"background", "brooch"} |->
         IF slot \in held THEN Some(slot) ELSE Null] :
        held \in SUBSET {"background", "brooch"}}

\* every prompt the ID photo tool builds from these parameters and images
IDPhotoPrompts ==
    {IDPhotoPromptText(held, held, p) : held \in Holdings, p \in IDPhotoParams}

\* those that ask for a white background in the words quoted, and do not
\* mention the second image
PlainWhitePrompts ==
    {prompt \in IDPhotoPrompts :
        /\ includes(Concat(prompt), "solid, pure white color (#FFFFFF)")
        /\ ~includes(Concat(prompt), "second image")}
WhiteBackgroundPrompts ==
    {prompt \in IDPhotoPrompts :
        /\ includes(Concat(prompt), "solid, pure **white color** (#FFFFFF)")
        /\ ~includes(Concat(prompt), "second image")}

\* C19 (as claimed): an ID photo request issued while no background image
\* is held has a prompt with the text "solid, pure white color (#FFFFFF)"
\* and without a mention of the second image, and no background image part
C19_WhiteBackgroundPlain ==
    [][(selectedTool = "idPhoto" /\ StartsGeneration /\ images["background"] = Null) =>
          /\ IssuedPrompt \in PlainWhitePrompts
          /\ IssuedImages = WithoutBackground]_vars

\* C19 (amended): an ID photo request issued while the background image is
\* left out (none held, or its payload not read yet) has a prompt with the
\* text "solid, pure **white color** (#FFFFFF)", the words white color
\* between asterisks, and without a mention of the second image, and
\* no background image part
C19_WhiteBackground ==
    [][(selectedTool = "idPhoto" /\ StartsGeneration /\ Absent("background")) =>
          /\ IssuedPrompt \in WhiteBackgroundPrompts
          /\ IssuedImages = WithoutBackground]_vars

C19_Witness ==
    /\ selectedTool = "idPhoto"
    /\ images["background"] = Null
    /\ \E i \in DOMAIN gens :
          /\ Len(gens[i].request.parts) = 2
          /\ WhiteBackgroundClause \in
                {gens[i].request.parts[2].text[j] :
                    j \in DOMAIN gens[i].request.parts[2].text}

\* the prompt of the request the step issues, in any tool
BuiltPrompt ==
    LET request == gens'[Len(gens')].request
    IN  IF selectedTool = "posterGenerator"
        THEN request.prompt
        ELSE request.parts[Len(request.parts)].text

\* which slots hold something, whatever it is: each held value replaced by
\* the same one
Presence(held, value) ==
    [slot \in DOMAIN held |-> IF held[slot] = Null THEN Null ELSE Some(value)]

\* the prompt the tool builds from its parameters alone and, in the ID
\* photo tool, from which images are there
PromptOf(tool, p, img, b64) ==
    IF tool = "idPhoto"
    THEN IDPhotoPromptText(Presence(img, [name |-> "any", type |-> "image/png"]),
                           Presence(b64, "any"), p)
    ELSE buildPrompt(tool, p)

Fresh ==
    /\ images = NoImages
    /\ base64s = NoImages
    /\ generatedImages = <<>>
    /\ error = Null
    /\ isLoading = FALSE
    /\ params = InitialParams(selectedTool)
    /\ reads = EmptyBag
    /\ gens = <<>>

C22_PayloadOfHeldFile ==
    \A slot \in AllSlots :
       base64s[slot] # Null =>
          /\ images[slot] # Null
          /\ Val(base64s[slot]) = fileToBase64(Val(images[slot]))


\* the image a stored result of a single-image tool was generated from:
\* the first part of the request the service answered
SourceOf(result) == result[2].parts[1].inlineData

\* C23 (as claimed): in the single-image tools, a stored result shown next
\* to a held original was generated from that original
C23_ResultOfHeldOriginal ==
    (/\ selectedTool \in SingleImageTools
     /\ generatedImages # <<>>
     /\ images["original"] # Null) =>
        /\ SourceOf(generatedImages[1]).data = fileToBase64(Val(images["original"]))
        /\ SourceOf(generatedImages[1]).mimeType = Val(images["original"]).type


\* the responses with an inline image part
WithImage == {"image", "textAndImage"}

\* slot k of the list the compositing step of generation i is filling, after
\* the step: of the stored result once the list is complete, of the list
\* being awaited before
SlotAfter(i, k) ==
    IF Len(gens') < Len(gens)
    THEN generatedImages'[k]
    ELSE Val(gens'[i].results[k])

\* C24: when the compositing call for poster k resolves, slot k holds the
\* composited image if the response has an inline image part and poster k
\* of step 1 if it has none, and the slots filled before keep what they
\* hold; whatever the order in which the calls resolve, the list stored
\* at the end is as long as the list of step 1
C24_CompositingKeepsOrder ==
    [][\A i \in DOMAIN gens : \A k \in PosterIndexes : \A shape \in ResponseShapes :
          (selectedTool = "posterGenerator" /\ AddLogoReturns(i, k, shape)) =>
             LET gen == gens[i]
                 request == AddLogoRequest(gen.posters[k], gen)
             IN  /\ SlotAfter(i, k) =
                       IF shape \in WithImage THEN Generated(request)
                       ELSE gen.posters[k]
                 /\ \A j \in DOMAIN gen.posters \ {k} :
                       gen.results[j] # Null => SlotAfter(i, j) = Val(gen.results[j])
                 /\ Len(gens') < Len(gens) =>
                       /\ Len(generatedImages') = Len(gen.posters)
                       /\ error' = error]_vars

\* a stored list of three where the first slot is the poster of step 1,
\* the second a composited image and the third a poster again
C24_Witness ==
    /\ selectedTool = "posterGenerator"
    /\ Len(generatedImages) = numberOfImages
    /\ generatedImages[1] = PosterImage(1)
    /\ generatedImages[2] # PosterImage(2)
    /\ generatedImages[3] = PosterImage(3)
    /\ images["logo"] # Null


\* the ID photo prompts that mention the second image, and the third one
SecondImagePrompts ==
    {prompt \in IDPhotoPrompts : includes(Concat(prompt), "second image")}
ThirdImagePrompts ==
    {prompt \in IDPhotoPrompts : includes(Concat(prompt), "third image (the brooch)")}

\* the image part of a File and its payload
ImagePart(slot) == InlineData(Val(base64s[slot]), Val(images[slot]).type)

\* C25 (as claimed): in an ID photo request the portrait is the first part
\* and the prompt the last one; the prompt mentions the second image only
\* if the background is the second part, and the third image (the brooch)
\* only if there are three image parts with the brooch third
C25_PositionsMatchParts ==
    [][(selectedTool = "idPhoto" /\ StartsGeneration) =>
          LET parts == gens'[Len(gens')].request.parts
          IN  /\ parts[1] = ImagePart("original")
              /\ ~IsInlineData(parts[Len(parts)])
              /\ IssuedPrompt \in SecondImagePrompts =>
                    (~Absent("background") /\ parts[2] = ImagePart("background"))
              /\ IssuedPrompt \in ThirdImagePrompts =>
                    /\ Len(IssuedImages) = 3
                    /\ ~Absent("brooch")
                    /\ IssuedImages[3] = ImagePart("brooch")]_vars


\* a generation has finished and left its outcome: a result, or a message
Succeeded == ~isLoading /\ gens = <<>> /\ generatedImages # <<>>
Failed == ~isLoading /\ gens = <<>> /\ error # Null

\* C26 (as claimed): in every tool, a file selection, whether the file is
\* accepted or refused, and an accepted Generate click, made after a
\* generation has finished, leave neither the result of a success nor the
\* message of a failure in place
C26_OutcomeNotSticky ==
    [][/\ \A slot \in Slots(selectedTool) :
          \A file \in SelectableFiles(selectedTool, slot) :
             HandleFileChange(slot, Some(file)) =>
                /\ Succeeded => generatedImages' = <<>>
                /\ Failed => error' \in {Null, Some(UnsupportedMessage(selectedTool, slot))}
       /\ StartsGeneration =>
             /\ Succeeded => generatedImages' = <<>>
             /\ Failed => error' = Null]_vars


\* the other slots of the ID photo tool
OtherSlots(slot) == Slots("idPhoto") \ {slot}

\* C27: in the ID photo tool a file selection for a slot, accepted or
\* refused, and the completion of the read it starts, leave the File and
\* the payload of the other two slots, the attire parameters, isLoading
\* and the stored result as they were
C27_SelectionTouchesOwnSlot ==
    [][selectedTool = "idPhoto" =>
          /\ \A slot \in Slots("idPhoto") :
             \A file \in SelectableFiles("idPhoto", slot) :
                HandleFileChange(slot, Some(file)) =>
                   /\ \A other \in OtherSlots(slot) :
                         /\ images'[other] = images[other]
                         /\ base64s'[other] = base64s[other]
                   /\ UNCHANGED <<params, isLoading, generatedImages>>
          /\ \A read \in PendingReads :
                FileLoaded(read) =>
                   /\ \A other \in OtherSlots(read.slot) :
                         base64s'[other] = base64s[other]
                   /\ UNCHANGED <<images, params, isLoading, generatedImages, error>>]_vars

\* a brooch has just been selected, its read pending, in an ID photo tool
\* that holds a portrait with its payload, a result and an edited parameter
C27_Witness ==
    /\ selectedTool = "idPhoto"
    /\ images["brooch"] # Null
    /\ base64s["brooch"] = Null
    /\ BagCardinality(reads) = 1
    /\ base64s["original"] # Null
    /\ generatedImages # <<>>
    /\ params # InitialParams("idPhoto")


\* a step in which an awaited service call of the mounted tool throws err
ServiceThrows(err) ==
    \E i \in DOMAIN gens :
       \/ GenerateContentThrows(i, err)
       \/ GenerateImagesThrows(i, err)
       \/ \E k \in PosterIndexes : AddLogoThrows(i, k, err)

\* the fixed text the message of a thrown error begins with
ErrorPrefix ==
    IF selectedTool = "posterGenerator"
    THEN "An error occurred: "
    ELSE "An error occurred while generating the image: "

NoImageLists == {Null, Some(0)}

\* C29: in the poster tool, when step 1 returns no images, the generation
\* ends there: the message says that the model returned no images, the
\* result list is empty, no compositing call is issued even with a logo
\* held, and isLoading and the loading message are reset
C29_NoPostersEndsGeneration ==
    [][\A i \in DOMAIN gens : \A returned \in NoImageLists :
          (selectedTool = "posterGenerator" /\ GenerateImagesReturns(i, returned)) =>
             /\ error' = Some(<<"An error occurred: ",
                                "The model did not return any images. This might be due to a safety filter. Please try adjusting your prompt.">>)
             /\ generatedImages' = <<>>
             /\ Len(gens') = Len(gens) - 1
             /\ Calls' = Calls - 1
             /\ ~isLoading'
             /\ loadingMessage' = ""]_vars

\* the poster tool, with a logo and its payload held, after step 1 returned
\* no images
C29_Witness ==
    /\ selectedTool = "posterGenerator"
    /\ images["logo"] # Null
    /\ base64s["logo"] # Null
    /\ error = Some(<<"An error occurred: ", NoPostersError.message>>)
    /\ generatedImages = <<>>
    /\ gens = <<>>
    /\ ~isLoading
    /\ loadingMessage = ""


\* the download attribute of the link rendered beside a stored result of
\* the social media tool
DownloadName == <<toLowerCase(params.platform), "_style.png">>

\* the platform whose prompt a stored result was generated with
PlatformOf(result) ==
    CHOOSE p \in Range(SOCIAL_PLATFORMS) :
       buildPrompt("socialMediaConverter", [platform |-> p])
          = result[2].parts[Len(result[2].parts)].text

\* C30 (as claimed): the download name offered with a stored result of
\* the social media tool is the lower-cased name of the platform the result
\* was generated for, followed by "_style.png"
C30_DownloadNamesPlatform ==
    (selectedTool = "socialMediaConverter" /\ generatedImages # <<>>) =>
        DownloadName = <<toLowerCase(PlatformOf(generatedImages[1])), "_style.png">>

============================================================================
